---- MODULE Spec2Model ----
(***************************************************************************)
(* A model of the generic singly linked list of LINKEDLIST/src/            *)
(* linkedlist.c: the list descriptor, the heap cells of its nodes and of   *)
(* their payloads, and every function of the API as an operator on a       *)
(* memory record, applied by one action per function.                      *)
(***************************************************************************)
EXTENDS Integers, Sequences, FiniteSets

(***************************************************************************)
(* Bounds and input sets.                                                  *)
(***************************************************************************)
\* Number of node cells, and of payload cells, the heap can hold at once:
\* malloc returns NULL when none is left.
MaxNodes == 3
\* Cap on the number of successful insertions counted for one list.
MaxIns == 4

NULL == 0
\* The address of the list descriptor handed out by sllist_create.
LIST == 1
\* A null `data` argument.
NoData == <<>>

NodeAddr == 1..MaxNodes
PayAddr == 1..MaxNodes
\* The address of the caller's storage that `data` points to: a cell that is
\* not part of the heap.
CALLER == MaxNodes + 1
\* The cells that hold bytes: the heap's payload cells and the caller's.
Cells == PayAddr \cup {CALLER}
Bytes == {0, 1}
DataSizes == {1, 2}
BufLen == CHOOSE n \in DataSizes : \A k \in DataSizes : k <= n
\* The caller's storage passed as `data`: BufLen bytes, here the buffers
\* b, b+1, ... (modulo the number of byte values), one for each first byte b.
Buffers == {[i \in 1..BufLen |-> (b + i - 1) % Cardinality(Bytes)] : b \in Bytes}
\* An index far larger than any length the list can have.
FarIndex == 100 * (MaxNodes + 1)
Indices == 0..MaxNodes \cup {FarIndex}
\* What the allocator does with the two malloc calls of an insert.
AllocChoices == {"ok", "node_fails", "data_fails"}

VARIABLES
    desc,       \* TRUE while the sllist descriptor is allocated
    head,       \* list->head
    data_size,  \* list->data_size
    next,       \* next[n]: the next field of node cell n
    data,       \* data[n]: the data field of node cell n
    bytes,      \* bytes[p]: the content of payload cell p
    nodeLive,   \* the node cells currently allocated
    payLive,    \* the payload cells currently allocated
    pre,        \* history: the memory at the entry of the last call
    last,       \* history: the last call (function, arguments, path, trace)
    nIns,       \* insertions that linked a node, since sllist_create
    nRem,       \* removals that unlinked a node, since sllist_create
    crashed     \* the process was stopped by a fault

memvars == <<desc, head, data_size, next, data, bytes, nodeLive, payLive>>
vars == <<desc, head, data_size, next, data, bytes, nodeLive, payLive,
          pre, last, nIns, nRem, crashed>>

(***************************************************************************)
(* The memory as a record, with the trace of the call being executed:      *)
(* frees and mallocs are the sequences of free and successful malloc calls,*)
(* ub the undefined behaviours met, path the return path taken, steps the   *)
(* number of times the body of a walking loop was executed.                *)
(***************************************************************************)
Cur ==
    [desc |-> desc, head |-> head, data_size |-> data_size, next |-> next,
     data |-> data, bytes |-> bytes, nodeLive |-> nodeLive, payLive |-> payLive,
     frees |-> <<>>, mallocs |-> <<>>, ub |-> {}, path |-> "entry",
     ret |-> 0, visited |-> <<>>, steps |-> 0]

\* The memory holding no list (before sllist_create, after free_sllist).
NoList ==
    [desc |-> FALSE, head |-> NULL, data_size |-> 0,
     next |-> [n \in NodeAddr |-> NULL], data |-> [n \in NodeAddr |-> NULL],
     bytes |-> [p \in Cells |-> <<>>], nodeLive |-> {}, payLive |-> {},
     frees |-> <<>>, mallocs |-> <<>>, ub |-> {}, path |-> "entry",
     ret |-> 0, visited |-> <<>>, steps |-> 0]

Min(S) == CHOOSE x \in S : \A y \in S : x <= y

Ret(m, p) == [m EXCEPT !.path = p]

\* The memory at the entry of a call whose `data` argument points to the
\* caller's storage holding buf (nothing when no data is passed).
Entry(buf) == [Cur EXCEPT !.bytes[CALLER] = buf]

\* The memory a call returned, as the next call finds it: its trace cleared.
Fresh(m) ==
    [m EXCEPT !.frees = <<>>, !.mallocs = <<>>, !.ub = {}, !.path = "entry",
              !.ret = 0, !.visited = <<>>, !.steps = 0]

(***************************************************************************)
(* The allocator.                                                          *)
(***************************************************************************)
\* malloc: the lowest free cell, or NULL when the allocator fails or no cell
\* is left.
malloc(free, succeeds) ==
    IF succeeds /\ free # {} THEN Min(free) ELSE NULL

\* The memory after malloc returned node cell n (content indeterminate,
\* modelled as cleared).
AllocNode(m, n) ==
    [m EXCEPT !.nodeLive = @ \cup {n}, !.next[n] = NULL, !.data[n] = NULL,
              !.mallocs = Append(@, <<"node", n>>)]

AllocPay(m, p) ==
    [m EXCEPT !.payLive = @ \cup {p}, !.bytes[p] = <<>>,
              !.mallocs = Append(@, <<"data", p>>)]

\* free(node cell): freeing a cell that is not allocated is a double free.
free_node(m, n) ==
    IF n \in m.nodeLive
    THEN [m EXCEPT !.nodeLive = @ \ {n}, !.next[n] = NULL, !.data[n] = NULL,
                   !.frees = Append(@, <<"node", n>>)]
    ELSE [m EXCEPT !.ub = @ \cup {"double_free"},
                   !.frees = Append(@, <<"node", n>>)]

\* free(payload cell); free(NULL) does nothing.
free_data(m, p) ==
    IF p = NULL THEN m
    ELSE IF p \in m.payLive
    THEN [m EXCEPT !.payLive = @ \ {p}, !.bytes[p] = <<>>,
                   !.frees = Append(@, <<"data", p>>)]
    ELSE [m EXCEPT !.ub = @ \cup {"double_free"},
                   !.frees = Append(@, <<"data", p>>)]

\* A read or write through node pointer n: undefined when n is not an
\* allocated node cell.
Deref(m, n) ==
    IF n \in m.nodeLive THEN m
    ELSE [m EXCEPT !.ub = @ \cup {IF n = NULL THEN "null_deref" ELSE "use_after_free"}]

\* memcpy(dst, src, n): the first n bytes of src are written to cell dst.
memcpy(m, dst, src, n) ==
    [m EXCEPT !.bytes[dst] = [i \in 1..n |-> src[i]]]

(***************************************************************************)
(* sllist_create                                                           *)
(***************************************************************************)
\* m is the memory without a list; ret is the pointer returned.
sllist_create(m, size, succeeds) ==
    IF ~succeeds THEN [Ret(m, "alloc_failed") EXCEPT !.ret = NULL]
    ELSE [Ret(m, "created") EXCEPT !.desc = TRUE, !.head = NULL,
                                   !.data_size = size, !.ret = LIST,
                                   !.mallocs = Append(@, <<"list", LIST>>)]

(***************************************************************************)
(* The three insertions.                                                   *)
(***************************************************************************)
\* The common opening of insert_front, insert_end and insert_at_index
\* (linkedlist.c 44-58, 79-94, 126-141): argument check, the node and its
\* payload are allocated, the value is copied. The result's path is
\* "allocated" with the new node the last malloc'ed node cell, or the path of
\* the early return.
\* A variant that returns on a failed payload allocation without freeing
\* the node.
new_node_leak(m, list, buf, alloc) ==
    IF list = NULL \/ buf = NoData THEN Ret(m, "invalid")
    ELSE LET n == malloc(NodeAddr \ m.nodeLive, alloc # "node_fails") IN
      IF n = NULL THEN Ret(m, "node_alloc_failed")
      ELSE LET m1 == AllocNode(m, n)
               p == malloc(PayAddr \ m1.payLive, alloc # "data_fails")
           IN IF p = NULL
              THEN Ret(m1, "data_alloc_failed")
              ELSE LET m2 == AllocPay([m1 EXCEPT !.data[n] = p], p)
                   IN Ret(memcpy(m2, p, buf, m2.data_size), "allocated")

\* A variant that keeps the caller's pointer in the node instead of copying
\* the value into a payload of its own.
new_node_borrow(m, list, buf, alloc) ==
    IF list = NULL \/ buf = NoData THEN Ret(m, "invalid")
    ELSE LET n == malloc(NodeAddr \ m.nodeLive, alloc # "node_fails") IN
      IF n = NULL THEN Ret(m, "node_alloc_failed")
      ELSE Ret([AllocNode(m, n) EXCEPT !.data[n] = CALLER], "allocated")

new_node(m, list, buf, alloc) ==
    IF list = NULL \/ buf = NoData THEN Ret(m, "invalid")
    ELSE LET n == malloc(NodeAddr \ m.nodeLive, alloc # "node_fails") IN
      IF n = NULL THEN Ret(m, "node_alloc_failed")
      ELSE LET m1 == AllocNode(m, n)
               p == malloc(PayAddr \ m1.payLive, alloc # "data_fails")
           IN IF p = NULL
              THEN Ret(free_node(m1, n), "data_alloc_failed")
              ELSE LET m2 == AllocPay([m1 EXCEPT !.data[n] = p], p)
                   IN Ret(memcpy(m2, p, buf, m2.data_size), "allocated")

\* The node cell new_node allocated.
NewNodeOf(m) == m.mallocs[1][2]

insert_front(m, list, buf, alloc) ==
    LET a == new_node(m, list, buf, alloc) IN
    IF a.path # "allocated" THEN a
    ELSE LET n == NewNodeOf(a) IN
         Ret([a EXCEPT !.next[n] = a.head, !.head = n], "linked")

\* A variant that never advances.
last_node_stuck(m, current, k) == <<current, k>>

\* while (current->next != NULL) current = current->next;
\* The result is <<current, k + the number of times the body ran>>.
RECURSIVE last_node(_, _, _)
last_node(m, current, k) ==
    IF m.next[current] # NULL THEN last_node(m, m.next[current], k + 1)
    ELSE <<current, k>>

insert_end(m, list, buf, alloc) ==
    LET a == new_node(m, list, buf, alloc) IN
    IF a.path # "allocated" THEN a
    ELSE LET n == NewNodeOf(a)
             b == [a EXCEPT !.next[n] = NULL]
         IN IF b.head = NULL
            THEN Ret([b EXCEPT !.head = n], "linked")
            ELSE LET w == last_node(b, b.head, 0) IN
                 Ret([b EXCEPT !.next[w[1]] = n, !.steps = @ + w[2]], "linked")

\* A variant that walks one node too far (i < index).
RECURSIVE iai_walk_far(_, _, _, _)
iai_walk_far(m, current, i, index) ==
    IF i < index
    THEN IF current = NULL THEN <<NULL, TRUE, i + 1>>
         ELSE iai_walk_far(m, m.next[current], i + 1, index)
    ELSE <<current, FALSE, i>>

\* A variant that does not return when it runs off the end, and goes on
\* counting up to index - 1 with current == NULL.
RECURSIVE iai_walk_on(_, _, _, _)
iai_walk_on(m, current, i, index) ==
    IF i < index - 1
    THEN IF current = NULL THEN iai_walk_on(m, NULL, i + 1, index)
         ELSE iai_walk_on(m, m.next[current], i + 1, index)
    ELSE <<current, FALSE, i>>

\* for (i = 0; i < index - 1; i++) { if (current == NULL) return;
\*                                    current = current->next; }
\* The result is <<current, ran off the end inside the loop, the number of
\* times the body ran>>.
RECURSIVE iai_walk(_, _, _, _)
iai_walk(m, current, i, index) ==
    IF i < index - 1
    THEN IF current = NULL THEN <<NULL, TRUE, i + 1>>
         ELSE iai_walk(m, m.next[current], i + 1, index)
    ELSE <<current, FALSE, i>>

\* A variant that forgets new_node->next = list->head.
iai_front_unlinked(m, n) ==
    Ret([m EXCEPT !.head = n], "linked")

\* index == 0: new_node->next = list->head; list->head = new_node;
iai_front(m, n) ==
    Ret([m EXCEPT !.next[n] = m.head, !.head = n], "linked")

\* A variant that frees the node but not its payload.
iai_out_of_bounds_leak(m, n) ==
    Ret(free_node(m, n), "out_of_bounds")

\* Index out of bounds: free(new_node->data); free(new_node); return;
iai_out_of_bounds(m, n) ==
    Ret(free_node(free_data(m, m.data[n]), n), "out_of_bounds")

\* A variant that forgets new_node->next = current->next.
iai_link_drop(m, n, current) ==
    Ret([m EXCEPT !.next[current] = n], "linked")

\* new_node->next = current->next; current->next = new_node;
iai_link(m, n, current) ==
    Ret([m EXCEPT !.next[n] = m.next[current], !.next[current] = n], "linked")

insert_at_index(m, list, buf, index, alloc) ==
    LET a == new_node(m, list, buf, alloc) IN
    IF a.path # "allocated" THEN a
    ELSE LET n == NewNodeOf(a)
             b == [a EXCEPT !.next[n] = NULL]
         IN IF index = 0 THEN iai_front(b, n)
            ELSE LET w == iai_walk(b, b.head, 0, index)
                     current == w[1]
                     c == [b EXCEPT !.steps = @ + w[3]]
                 IN IF w[2] \/ current = NULL
                    THEN iai_out_of_bounds(c, n)
                    ELSE iai_link(c, n, current)

(***************************************************************************)
(* The three removals.                                                     *)
(***************************************************************************)
\* `list->head` with list == NULL: a null pointer is dereferenced.
NullList(m) == Ret([m EXCEPT !.ub = @ \cup {"null_deref"}], "fault")

free_at_front(m, list) ==
    IF list = NULL THEN NullList(m)
    ELSE IF m.head = NULL THEN Ret(m, "empty")
    ELSE LET temp == m.head
             m1 == [m EXCEPT !.head = m.next[temp]]
             m2 == free_data(m1, m1.data[temp])
         IN Ret(free_node(m2, temp), "removed")

\* A variant that never advances.
before_last_stuck(m, current, k) == <<current, k>>

\* while (current->next->next != NULL) current = current->next;
\* The result is <<current, k + the number of times the body ran>>.
RECURSIVE before_last(_, _, _)
before_last(m, current, k) ==
    IF m.next[m.next[current]] # NULL THEN before_last(m, m.next[current], k + 1)
    ELSE <<current, k>>

\* A variant that frees the only node but not its payload.
fae_single_leak(m) ==
    LET m2 == free_node(m, m.head)
    IN Ret([m2 EXCEPT !.head = NULL], "removed")

\* The list has one node: free(list->head->data); free(list->head);
\* list->head = NULL;
fae_single(m) ==
    LET m1 == free_data(m, m.data[m.head])
        m2 == free_node(m1, m.head)
    IN Ret([m2 EXCEPT !.head = NULL], "removed")

\* A variant that forgets current->next = NULL.
fae_last_dangling(m, current) ==
    LET m1 == free_data(m, m.data[m.next[current]])
        m2 == free_node(m1, m.next[current])
    IN Ret([m2 EXCEPT !.next[current] = m.next[current]], "removed")

\* free(current->next->data); free(current->next); current->next = NULL;
fae_last(m, current) ==
    LET m1 == free_data(m, m.data[m.next[current]])
        m2 == free_node(m1, m.next[current])
    IN Ret([m2 EXCEPT !.next[current] = NULL], "removed")

free_at_end(m, list) ==
    IF list = NULL THEN NullList(m)
    ELSE IF m.head = NULL THEN Ret(m, "empty")
    ELSE IF m.next[m.head] = NULL THEN fae_single(m)
    ELSE LET w == before_last(m, m.head, 0)
         IN fae_last([m EXCEPT !.steps = @ + w[2]], w[1])

\* A variant that walks one node too far (i < index).
RECURSIVE fai_walk_far(_, _, _, _)
fai_walk_far(m, current, i, index) ==
    IF i < index
    THEN IF m.next[current] = NULL THEN <<current, TRUE, i + 1>>
         ELSE fai_walk_far(m, m.next[current], i + 1, index)
    ELSE <<current, FALSE, i>>

\* for (i = 0; i < index - 1; i++) { if (current->next == NULL) return;
\*                                    current = current->next; }
\* The result is <<current, returned inside the loop, the number of times
\* the body ran>>.
RECURSIVE fai_walk(_, _, _, _)
fai_walk(m, current, i, index) ==
    IF i < index - 1
    THEN IF m.next[current] = NULL THEN <<current, TRUE, i + 1>>
         ELSE fai_walk(m, m.next[current], i + 1, index)
    ELSE <<current, FALSE, i>>

\* A variant that frees the removed node but not its payload.
fai_unlink_leak(m, current) ==
    LET temp == m.next[current]
        m1 == [m EXCEPT !.next[current] = m.next[temp]]
    IN Ret(free_node(m1, temp), "removed")

\* A variant that sets current->next = NULL instead of temp->next.
fai_unlink_cut(m, current) ==
    LET temp == m.next[current]
        m1 == [m EXCEPT !.next[current] = NULL]
        m2 == free_data(m1, m1.data[temp])
    IN Ret(free_node(m2, temp), "removed")

\* temp = current->next; current->next = temp->next;
\* free(temp->data); free(temp);
fai_unlink(m, current) ==
    LET temp == m.next[current]
        m1 == [m EXCEPT !.next[current] = m.next[temp]]
        m2 == free_data(m1, m1.data[temp])
    IN Ret(free_node(m2, temp), "removed")

\* A variant that removes the last node when the index is out of bounds.
fai_out_of_bounds_clamp(m, list) == free_at_end(m, list)

\* Index out of bounds: return;
fai_out_of_bounds(m, list) == Ret(m, "out_of_bounds")

free_at_index(m, list, index) ==
    IF list = NULL THEN NullList(m)
    ELSE IF m.head = NULL THEN Ret(m, "empty")
    ELSE IF index = 0 THEN free_at_front(m, list)
    ELSE LET w == fai_walk(m, m.head, 0, index)
             current == w[1]
             c == [m EXCEPT !.steps = @ + w[3]]
         IN IF w[2] \/ m.next[current] = NULL THEN fai_out_of_bounds(c, list)
            ELSE fai_unlink(c, current)

(***************************************************************************)
(* free_sllist                                                             *)
(***************************************************************************)
\* A variant that frees the nodes but not their payloads.
RECURSIVE free_nodes_leak(_, _)
free_nodes_leak(m, current) ==
    IF current = NULL THEN m
    ELSE LET m0 == Deref(m, current)
             next_node == m0.next[current]
             m2 == free_node(m0, current)
         IN free_nodes_leak([m2 EXCEPT !.steps = @ + 1], next_node)

\* while (current != NULL) { next_node = current->next; free(current->data);
\*                           free(current); current = next_node; }
RECURSIVE free_nodes(_, _)
free_nodes(m, current) ==
    IF current = NULL THEN m
    ELSE LET m0 == Deref(m, current)
             next_node == m0.next[current]
             m1 == free_data(m0, m0.data[current])
             m2 == free_node(m1, current)
         IN free_nodes([m2 EXCEPT !.steps = @ + 1], next_node)

\* free(list): the descriptor's content is indeterminate afterwards,
\* modelled as cleared.
free_list(m) ==
    IF m.desc
    THEN [m EXCEPT !.desc = FALSE, !.head = NULL, !.data_size = 0,
                   !.frees = Append(@, <<"list", LIST>>)]
    ELSE [m EXCEPT !.ub = @ \cup {"double_free"},
                   !.frees = Append(@, <<"list", LIST>>)]

free_sllist(m, list) ==
    IF list = NULL THEN NullList(m)
    ELSE Ret(free_list(free_nodes(m, m.head)), "destroyed")

(***************************************************************************)
(* sll_len and print_sllist                                                *)
(***************************************************************************)
\* A variant that starts counting at 1.
RECURSIVE count_nodes_from_one(_, _, _)
count_nodes_from_one(m, current, length) ==
    IF current = NULL THEN length + 1
    ELSE count_nodes_from_one(m, m.next[current], length + 1)

\* while (current != NULL) { length++; current = current->next; }
\* The body runs once for each unit of length.
RECURSIVE count_nodes(_, _, _)
count_nodes(m, current, length) ==
    IF current = NULL THEN length
    ELSE count_nodes(m, m.next[current], length + 1)

sll_len(m, list) ==
    IF list = NULL THEN NullList(m)
    ELSE LET length == count_nodes(m, m.head, 0) IN
         [Ret(m, "returned") EXCEPT !.ret = length, !.steps = @ + length]

\* while (current != NULL) { print_func(current->data); current = current->next; }
\* A variant that hands the visitor the values last node first.
RECURSIVE visit_nodes_reversed(_, _, _)
visit_nodes_reversed(m, current, seen) ==
    IF current = NULL THEN seen
    ELSE visit_nodes_reversed(m, m.next[current],
                              <<m.bytes[m.data[current]]>> \o seen)

\* visited is the sequence of values the visitor was called with; the body
\* runs once for each of them.
RECURSIVE visit_nodes(_, _, _)
visit_nodes(m, current, seen) ==
    IF current = NULL THEN seen
    ELSE visit_nodes(m, m.next[current], Append(seen, m.bytes[m.data[current]]))

print_sllist(m, list) ==
    IF list = NULL THEN NullList(m)
    ELSE LET seen == visit_nodes(m, m.head, <<>>) IN
         [Ret(m, "returned") EXCEPT !.visited = seen, !.steps = @ + Len(seen)]

(***************************************************************************)
(* The actions: one per function of the API. The caller passes the handle  *)
(* it holds (LIST while the descriptor is allocated) or NULL, and any      *)
(* buffer or no buffer. A call leaves its record in the history variables  *)
(* pre and last; the caller may then overwrite the storage it passed as    *)
(* `data` (CallerWrites), and goes on to its next call (Forget), which     *)
(* discards the record so that memories that differ only in how they were  *)
(* reached are explored once.                                              *)
(***************************************************************************)
\* No call is on record: the caller is about to make its next call.
Idle == last.op = "none" /\ ~crashed

Handles == IF desc THEN {NULL, LIST} ELSE {NULL}

\* An insert that rejects its arguments reads neither the index nor the
\* allocator: such calls are enumerated with the first and the last index and
\* one allocator choice.
Rejected(list, buf) == list = NULL \/ buf = NoData
IndicesFor(list, buf) ==
    IF Rejected(list, buf) THEN {0, MaxNodes} ELSE Indices
AllocFor(list, buf) ==
    IF Rejected(list, buf) THEN {"ok"} ELSE AllocChoices

NoCall ==
    [op |-> "none", list |-> NULL, buf |-> NoData, index |-> 0, alloc |-> "ok",
     path |-> "entry", frees |-> <<>>, mallocs |-> <<>>, ub |-> {},
     ret |-> 0, visited |-> <<>>, steps |-> 0]

CallOf(f, list, buf, index, alloc, r) ==
    [op |-> f, list |-> list, buf |-> buf, index |-> index, alloc |-> alloc,
     path |-> r.path, frees |-> r.frees, mallocs |-> r.mallocs, ub |-> r.ub,
     ret |-> r.ret, visited |-> r.visited, steps |-> r.steps]

\* The call f returned memory r.
Apply(f, list, buf, index, alloc, r) ==
    /\ desc' = r.desc
    /\ head' = r.head
    /\ data_size' = r.data_size
    /\ next' = r.next
    /\ data' = r.data
    /\ bytes' = r.bytes
    /\ nodeLive' = r.nodeLive
    /\ payLive' = r.payLive
    /\ pre' = Entry(buf)
    /\ last' = CallOf(f, list, buf, index, alloc, r)
    /\ nIns' = IF r.path = "created" THEN 0
               ELSE IF r.path = "linked" THEN nIns + 1 ELSE nIns
    /\ nRem' = IF r.path = "created" THEN 0
               ELSE IF r.path = "removed" THEN nRem + 1 ELSE nRem

\* A null pointer dereference either stops the process (a trap) or, where
\* address 0 is readable, reads a zero and the call returns.
Outcome(r) ==
    IF r.ub = {} THEN crashed' = FALSE ELSE crashed' \in BOOLEAN

Create ==
    /\ Idle /\ ~desc
    /\ \E size \in DataSizes, ok \in BOOLEAN :
         LET r == sllist_create(Entry(NoData), size, ok) IN
         Apply("sllist_create", NULL, NoData, 0, IF ok THEN "ok" ELSE "list_fails", r)
         /\ Outcome(r)

InsertFront ==
    /\ Idle /\ nIns < MaxIns
    /\ \E list \in Handles, buf \in Buffers \cup {NoData} :
       \E alloc \in AllocFor(list, buf) :
         LET r == insert_front(Entry(buf), list, buf, alloc) IN
         Apply("insert_front", list, buf, 0, alloc, r) /\ Outcome(r)

InsertEnd ==
    /\ Idle /\ nIns < MaxIns
    /\ \E list \in Handles, buf \in Buffers \cup {NoData} :
       \E alloc \in AllocFor(list, buf) :
         LET r == insert_end(Entry(buf), list, buf, alloc) IN
         Apply("insert_end", list, buf, 0, alloc, r) /\ Outcome(r)

InsertAtIndex ==
    /\ Idle /\ nIns < MaxIns
    /\ \E list \in Handles, buf \in Buffers \cup {NoData} :
       \E index \in IndicesFor(list, buf), alloc \in AllocFor(list, buf) :
         LET r == insert_at_index(Entry(buf), list, buf, index, alloc) IN
         Apply("insert_at_index", list, buf, index, alloc, r) /\ Outcome(r)

FreeAtFront ==
    /\ Idle
    /\ \E list \in Handles :
         LET r == free_at_front(Entry(NoData), list) IN
         Apply("free_at_front", list, NoData, 0, "ok", r) /\ Outcome(r)

FreeAtEnd ==
    /\ Idle
    /\ \E list \in Handles :
         LET r == free_at_end(Entry(NoData), list) IN
         Apply("free_at_end", list, NoData, 0, "ok", r) /\ Outcome(r)

FreeAtIndex ==
    /\ Idle
    /\ \E list \in Handles :
       \E index \in (IF list = NULL THEN {0, MaxNodes} ELSE Indices) :
         LET r == free_at_index(Entry(NoData), list, index) IN
         Apply("free_at_index", list, NoData, index, "ok", r) /\ Outcome(r)

FreeSllist ==
    /\ Idle
    /\ \E list \in Handles :
         LET r == free_sllist(Entry(NoData), list) IN
         Apply("free_sllist", list, NoData, 0, "ok", r) /\ Outcome(r)

SllLen ==
    /\ Idle
    /\ \E list \in Handles :
         LET r == sll_len(Entry(NoData), list) IN
         Apply("sll_len", list, NoData, 0, "ok", r) /\ Outcome(r)

PrintSllist ==
    /\ Idle
    /\ \E list \in Handles :
         LET r == print_sllist(Entry(NoData), list) IN
         Apply("print_sllist", list, NoData, 0, "ok", r) /\ Outcome(r)

\* The caller overwrites the storage it passed as `data` to the insert that
\* has just returned.
CallerWrites ==
    /\ ~crashed
    /\ last.op \in {"insert_front", "insert_end", "insert_at_index"}
    /\ last.buf # NoData
    /\ \E b \in Buffers \ {bytes[CALLER]} :
         bytes' = [bytes EXCEPT ![CALLER] = b]
    /\ UNCHANGED <<desc, head, data_size, next, data, nodeLive, payLive,
                   pre, last, nIns, nRem, crashed>>

\* The caller goes on to its next call: the record of the last one is
\* discarded, and the storage it passed is the caller's again.
Forget ==
    /\ ~crashed
    /\ last.op # "none"
    /\ last' = NoCall
    /\ pre' = NoList
    /\ bytes' = [bytes EXCEPT ![CALLER] = NoData]
    /\ UNCHANGED <<desc, head, data_size, next, data, nodeLive, payLive,
                   nIns, nRem, crashed>>

\* The state after a successful sllist_create(size).
Init ==
    /\ \E size \in DataSizes :
         LET r == sllist_create(NoList, size, TRUE) IN
         /\ desc = r.desc
         /\ head = r.head
         /\ data_size = r.data_size
         /\ next = r.next
         /\ data = r.data
         /\ bytes = r.bytes
         /\ nodeLive = r.nodeLive
         /\ payLive = r.payLive
    /\ pre = NoList
    /\ last = [NoCall EXCEPT !.op = "sllist_create", !.path = "created",
                             !.ret = LIST, !.mallocs = <<<<"list", LIST>>>>]
    /\ nIns = 0
    /\ nRem = 0
    /\ crashed = FALSE

Next ==
    \/ Create
    \/ InsertFront
    \/ InsertEnd
    \/ InsertAtIndex
    \/ FreeAtFront
    \/ FreeAtEnd
    \/ FreeAtIndex
    \/ FreeSllist
    \/ SllLen
    \/ PrintSllist
    \/ CallerWrites
    \/ Forget

Spec == Init /\ [][Next]_vars

(***************************************************************************)
(* The abstract view of a memory: the chain of nodes from head and the     *)
(* sequence of elements it stores.                                         *)
(***************************************************************************)
\* The node cells reached from n by at most fuel next links.
RECURSIVE ChainFrom(_, _, _)
ChainFrom(m, n, fuel) ==
    IF n = NULL \/ fuel = 0 THEN <<>>
    ELSE <<n>> \o ChainFrom(m, m.next[n], fuel - 1)

Chain(m) == ChainFrom(m, m.head, MaxNodes + 1)

\* The element sequence of the list: the payload of each node, head first.
Elems(m) ==
    [i \in 1..Len(Chain(m)) |->
        IF m.data[Chain(m)[i]] = NULL THEN <<>> ELSE m.bytes[m.data[Chain(m)[i]]]]

\* The list's memory in a memory record: the descriptor and the heap,
\* without the caller's storage and the trace of the call.
Mem(m) ==
    [desc |-> m.desc, head |-> m.head, data_size |-> m.data_size,
     next |-> m.next, data |-> m.data,
     bytes |-> [p \in PayAddr |-> m.bytes[p]],
     nodeLive |-> m.nodeLive, payLive |-> m.payLive]

\* The value an insert of buffer buf stores in a list of element size n.
Stored(buf, n) == SubSeq(buf, 1, n)

\* Sequence S with v inserted so that it has 0-based position i.
InsertAt(S, i, v) == SubSeq(S, 1, i) \o <<v>> \o SubSeq(S, i + 1, Len(S))

\* How many times x occurs in sequence S.
Occurs(S, x) == Cardinality({i \in 1..Len(S) : S[i] = x})

InsertOps == {"insert_front", "insert_end", "insert_at_index"}
RemoveOps == {"free_at_front", "free_at_end", "free_at_index"}
AllocFailed == {"node_alloc_failed", "data_alloc_failed"}

\* The last call was f on the live list.
Called(f) == last.op = f /\ last.list = LIST

(***************************************************************************)
(* C1. After any sequence of insert_front, insert_end, insert_at_index,    *)
(* free_at_front, free_at_end and free_at_index calls on a created list,   *)
(* sll_len(list) is the number of insertions that linked a node minus the  *)
(* number of removals that unlinked one; a call that does neither (index   *)
(* out of bounds, empty list, failed allocation, rejected arguments)       *)
(* leaves sll_len as it was.                                               *)
(***************************************************************************)
C1_LengthIsNetCount ==
    desc =>
      /\ sll_len(Cur, LIST).ret = nIns - nRem
      /\ (last.op \in InsertOps \cup RemoveOps
            /\ last.path \notin {"linked", "removed"})
         => sll_len(Cur, LIST).ret = sll_len(pre, LIST).ret

C1_Witness ==
    /\ Called("free_at_index") /\ last.path = "removed" /\ last.index = 1
    /\ nIns >= 3 /\ nRem >= 2
    /\ sll_len(Cur, LIST).ret = 1

(***************************************************************************)
(* C2. free_sllist on any reachable list, the empty one included, frees    *)
(* every node cell and every payload exactly once and then the descriptor  *)
(* exactly once: nothing stays allocated, nothing is freed twice and no    *)
(* freed cell is read.                                                     *)
(***************************************************************************)
C2_DestroyFreesAllOnce ==
    Called("free_sllist") =>
      /\ last.path = "destroyed"
      /\ last.ub = {}
      /\ ~desc /\ nodeLive = {} /\ payLive = {}
      /\ \A n \in pre.nodeLive : Occurs(last.frees, <<"node", n>>) = 1
      /\ \A p \in pre.payLive : Occurs(last.frees, <<"data", p>>) = 1
      /\ \A i \in 1..Len(Chain(pre)) :
           /\ Occurs(last.frees, <<"node", Chain(pre)[i]>>) = 1
           /\ Occurs(last.frees, <<"data", pre.data[Chain(pre)[i]]>>) = 1
      /\ Len(last.frees) = 2 * Len(Chain(pre)) + 1
      /\ last.frees[Len(last.frees)] = <<"list", LIST>>

C2_Witness ==
    /\ Called("free_sllist") /\ last.path = "destroyed"
    /\ Len(Chain(pre)) >= 2
    /\ Len(last.frees) = 2 * Len(Chain(pre)) + 1

(***************************************************************************)
(* C3. When the allocation of the node or of its payload fails inside      *)
(* insert_front, insert_end or insert_at_index, the memory is exactly what *)
(* it was before the call (same elements, same order, nothing new linked   *)
(* or allocated); when the payload allocation fails, the node that was     *)
(* allocated is freed before returning.                                    *)
(***************************************************************************)
C3_AllocFailureRestores ==
    (last.op \in InsertOps /\ last.path \in AllocFailed) =>
      /\ Mem(Cur) = Mem(pre)
      /\ Elems(Cur) = Elems(pre)
      /\ last.ub = {}
      /\ last.path = "node_alloc_failed" =>
           last.mallocs = <<>> /\ last.frees = <<>>
      /\ last.path = "data_alloc_failed" =>
           /\ Len(last.mallocs) = 1 /\ last.mallocs[1][1] = "node"
           /\ last.frees = last.mallocs

C3_Witness ==
    /\ Called("insert_at_index") /\ last.path = "data_alloc_failed"
    /\ last.alloc = "data_fails"
    /\ Len(Elems(pre)) = 2
    /\ last.frees # <<>>

(***************************************************************************)
(* C4. A call of insert_front, insert_end, insert_at_index, free_at_front, *)
(* free_at_end, free_at_index, free_sllist, sll_len or print_sllist with a *)
(* null list, and an insert with a null value, returns without             *)
(* dereferencing the null pointer, without allocating and without changing *)
(* any state, and the process goes on.                                     *)
(***************************************************************************)
ListOps == InsertOps \cup RemoveOps \cup {"free_sllist", "sll_len", "print_sllist"}

InvalidCall ==
    \/ last.op \in ListOps /\ last.list = NULL
    \/ last.op \in InsertOps /\ last.buf = NoData

C4_InvalidArgumentIgnored ==
    InvalidCall =>
      /\ last.ub = {}
      /\ ~crashed
      /\ last.mallocs = <<>> /\ last.frees = <<>>
      /\ Mem(Cur) = Mem(pre)

\* The part of C4 the code keeps: the three inserts reject a null list and
\* a null value before anything is read or allocated.
C4_InsertsRejectNull ==
    (last.op \in InsertOps /\ InvalidCall) =>
      /\ last.path = "invalid"
      /\ last.ub = {} /\ ~crashed
      /\ last.mallocs = <<>> /\ last.frees = <<>>
      /\ Mem(Cur) = Mem(pre)

(***************************************************************************)
(* C5. On a list with element sequence S, insert_at_index(list, v, i) with *)
(* 0 <= i <= Len(S) whose allocations succeed links the node, and the      *)
(* result is S[0..i-1] ++ [v] ++ S[i..]: v has position i and the other    *)
(* elements keep their order.                                              *)
(***************************************************************************)
C5_InsertAtIndexPosition ==
    (Called("insert_at_index") /\ last.buf # NoData) =>
      LET S == Elems(pre)
          v == Stored(last.buf, pre.data_size)
      IN /\ (last.index <= Len(S) /\ last.path \notin AllocFailed)
              => last.path = "linked"
         /\ last.path = "linked" =>
              /\ last.index <= Len(S)
              /\ Elems(Cur) = InsertAt(S, last.index, v)
              /\ Elems(Cur)[last.index + 1] = v
              /\ Len(v) = pre.data_size

C5_Witness ==
    /\ Called("insert_at_index") /\ last.path = "linked"
    /\ last.index = 1 /\ Len(Elems(pre)) = 2
    /\ Elems(pre)[1] # Elems(Cur)[2]
    /\ Elems(Cur)[3] = Elems(pre)[2]

(***************************************************************************)
(* C6. insert_at_index(list, v, sll_len(list)) is accepted on every list,  *)
(* the empty one included (it is never out of bounds), and leaves the      *)
(* memory insert_end(list, v) leaves from the same state.                  *)
(***************************************************************************)
C6_IndexLenIsInsertEnd ==
    (Called("insert_at_index") /\ last.buf # NoData
       /\ last.index = sll_len(pre, LIST).ret) =>
      LET e == insert_end(pre, LIST, last.buf, last.alloc) IN
      /\ last.path \in {"linked"} \cup AllocFailed
      /\ last.path = e.path
      /\ Mem(Cur) = Mem(e)
      /\ Elems(Cur) = Elems(e)
      /\ last.path = "linked" =>
           Elems(Cur) = Append(Elems(pre), Stored(last.buf, pre.data_size))

C6_Witness ==
    /\ Called("insert_at_index") /\ last.path = "linked"
    /\ last.index = 2 /\ sll_len(pre, LIST).ret = 2
    /\ Len(Elems(Cur)) = 3

(***************************************************************************)
(* C7. insert_at_index(list, v, 0) leaves the memory insert_front(list, v) *)
(* leaves from the same state: the new node is the head, its next is the   *)
(* former head, the other nodes are unchanged.                             *)
(***************************************************************************)
C7_IndexZeroIsInsertFront ==
    (Called("insert_at_index") /\ last.buf # NoData /\ last.index = 0) =>
      LET f == insert_front(pre, LIST, last.buf, last.alloc) IN
      /\ last.path = f.path
      /\ Mem(Cur) = Mem(f)
      /\ last.path = "linked" =>
           /\ head = last.mallocs[1][2]
           /\ next[head] = pre.head
           /\ \A n \in pre.nodeLive :
                next[n] = pre.next[n] /\ data[n] = pre.data[n]
           /\ Elems(Cur) = <<Stored(last.buf, pre.data_size)>> \o Elems(pre)

C7_Witness ==
    /\ Called("insert_at_index") /\ last.path = "linked" /\ last.index = 0
    /\ pre.head # NULL
    /\ next[head] = pre.head

(***************************************************************************)
(* C8. insert_at_index with index > sll_len(list), any index >= 1 on the   *)
(* empty list included, changes nothing: the elements and the length are   *)
(* as before, and the node and the payload it allocated for the insertion  *)
(* are both freed before it returns, so that nothing is leaked.            *)
(***************************************************************************)
C8_InsertOutOfBoundsNoOp ==
    (Called("insert_at_index") /\ last.buf # NoData
       /\ last.index > sll_len(pre, LIST).ret) =>
      /\ last.path \in {"out_of_bounds"} \cup AllocFailed
      /\ Elems(Cur) = Elems(pre)
      /\ sll_len(Cur, LIST).ret = sll_len(pre, LIST).ret
      /\ Mem(Cur) = Mem(pre)
      /\ nodeLive = pre.nodeLive /\ payLive = pre.payLive
      /\ last.ub = {}
      /\ last.path = "out_of_bounds" =>
           /\ Len(last.mallocs) = 2 /\ Len(last.frees) = 2
           /\ {last.frees[1], last.frees[2]} = {last.mallocs[1], last.mallocs[2]}

C8_Witness ==
    /\ Called("insert_at_index") /\ last.path = "out_of_bounds"
    /\ sll_len(pre, LIST).ret = 1 /\ last.index = 3
    /\ Len(last.frees) = 2

(***************************************************************************)
(* C9. free_at_index with index >= sll_len(list), any index on the empty   *)
(* list included, leaves the length and the element order unchanged and    *)
(* frees nothing.                                                          *)
(***************************************************************************)
C9_RemoveOutOfBoundsNoOp ==
    (Called("free_at_index") /\ last.index >= sll_len(pre, LIST).ret) =>
      /\ last.path \in {"empty", "out_of_bounds"}
      /\ Elems(Cur) = Elems(pre)
      /\ sll_len(Cur, LIST).ret = sll_len(pre, LIST).ret
      /\ Mem(Cur) = Mem(pre)
      /\ last.frees = <<>>

C9_Witness ==
    /\ Called("free_at_index") /\ last.path = "out_of_bounds"
    /\ sll_len(pre, LIST).ret = 2 /\ last.index = 2
    /\ last.frees = <<>>

(***************************************************************************)
(* C10. insert_at_index(list, v, i) immediately followed by                *)
(* free_at_index(list, i) restores the element sequence the list had       *)
(* before the insert, for every list and every index i.                    *)
(***************************************************************************)
\* The element sequence free_at_index(list, i) leaves when it is called
\* right after the insert_at_index(list, v, i) that was the last call.
AfterRoundTrip == Elems(free_at_index(Cur, LIST, last.index))

RemoveAt(S, i) == SubSeq(S, 1, i) \o SubSeq(S, i + 2, Len(S))

C11_RemovesElementAtIndex ==
    (Called("free_at_index") /\ last.index < Len(Elems(pre))) =>
        LET ch == Chain(pre)
            i == last.index
            t == ch[i + 1]
            front == free_at_front(pre, LIST)
        IN /\ last.path = "removed"
           /\ last.ub = {}
           /\ Elems(Cur) = RemoveAt(Elems(pre), i)
           /\ Chain(Cur) = RemoveAt(ch, i)
           /\ i > 0 => next[ch[i]] = pre.next[t]
           /\ \A n \in nodeLive :
                 /\ data[n] = pre.data[n]
                 /\ bytes[data[n]] = pre.bytes[pre.data[n]]
                 /\ (i = 0 \/ n # ch[i]) => next[n] = pre.next[n]
           /\ last.frees = << <<"data", pre.data[t]>>, <<"node", t>> >>
           /\ last.mallocs = <<>>
           /\ nodeLive = pre.nodeLive \ {t}
           /\ payLive = pre.payLive \ {pre.data[t]}
           /\ i = 0 => /\ Mem(Cur) = Mem(front)
                       /\ last.frees = front.frees

\* The middle element of a three-element list has been removed.
C11_Witness ==
    /\ Called("free_at_index")
    /\ last.index = 1
    /\ Len(Elems(pre)) = 3
    /\ Elems(pre)[1] # Elems(pre)[2]
    /\ last.path = "removed"

(***************************************************************************)
(* C12. print_sllist calls the visitor exactly once per element, in        *)
(* head-to-tail order, each time with that element's stored value: the     *)
(* values visited are the element sequence, as many as sll_len counts, the *)
(* k-th being the payload of the k-th node of the chain. Consequently, on  *)
(* every empty list, insert_front(A), insert_front(B), insert_end(C) and   *)
(* then print_sllist make the visitor see exactly [B, A, C].               *)
(***************************************************************************)
\* What the visitor sees after insert_front(A), insert_front(B),
\* insert_end(C) on memory m, all allocations succeeding.
VisitedAfterABC(m, A, B, C) ==
    LET m1 == insert_front(Fresh(m), LIST, A, "ok")
        m2 == insert_front(Fresh(m1), LIST, B, "ok")
        m3 == insert_end(Fresh(m2), LIST, C, "ok")
    IN print_sllist(Fresh(m3), LIST).visited

C12_VisitsHeadToTail ==
    /\ Called("print_sllist") =>
          /\ last.visited = Elems(pre)
          /\ Len(last.visited) = sll_len(pre, LIST).ret
          /\ Len(last.visited) = Len(Chain(pre))
          /\ \A k \in 1..Len(last.visited) :
                last.visited[k] = pre.bytes[pre.data[Chain(pre)[k]]]
    /\ (desc /\ head = NULL /\ ~crashed) =>
          \A A \in Buffers, B \in Buffers, C \in Buffers :
              VisitedAfterABC(Cur, A, B, C) =
                  <<Stored(B, data_size), Stored(A, data_size), Stored(C, data_size)>>

\* print_sllist has visited three elements of which the first two differ.
C12_Witness ==
    /\ Called("print_sllist")
    /\ Len(last.visited) = 3
    /\ last.visited[1] # last.visited[2]

(***************************************************************************)
(* C13. free_at_front followed immediately by free_at_end on any           *)
(* two-element list empties the list: both calls remove a node, head is    *)
(* NULL, sll_len returns 0, no node and no payload stays allocated, and    *)
(* the free calls of the two calls together are the two nodes and the two  *)
(* payloads of the list, each exactly once, with no undefined behaviour.   *)
(* (Checked in the states free_at_front returns to, with free_at_end       *)
(* applied to the memory it left.)                                         *)
(***************************************************************************)
AfterFrontThenEnd == free_at_end(Fresh(Cur), LIST)

C13_FrontThenEndEmpties ==
    (Called("free_at_front") /\ Len(Chain(pre)) = 2) =>
        LET e == AfterFrontThenEnd
            all == last.frees \o e.frees
        IN /\ last.path = "removed" /\ e.path = "removed"
           /\ last.ub = {} /\ e.ub = {}
           /\ e.desc /\ e.head = NULL
           /\ sll_len(Fresh(e), LIST).ret = 0
           /\ e.nodeLive = {} /\ e.payLive = {}
           /\ Len(all) = 4
           /\ \A k \in 1..2 :
                 /\ Occurs(all, <<"node", Chain(pre)[k]>>) = 1
                 /\ Occurs(all, <<"data", pre.data[Chain(pre)[k]]>>) = 1

\* free_at_front has removed the first of two different elements.
C13_Witness ==
    /\ Called("free_at_front")
    /\ last.path = "removed"
    /\ Len(Elems(pre)) = 2
    /\ Elems(pre)[1] # Elems(pre)[2]
    /\ AfterFrontThenEnd.path = "removed"

(***************************************************************************)
(* C14. Structural invariant: in every state, after calls that take an     *)
(* error or no-op path too, the chain from head is finite and acyclic (no  *)
(* node occurs twice, at most MaxNodes nodes), each node links to the next *)
(* one of the chain and the last to NULL, every node of the chain is an    *)
(* allocated, not freed, node whose payload is allocated, and a node is    *)
(* allocated only by an insert on this list, as the first malloc of the    *)
(* call.                                                                   *)
(***************************************************************************)
NoDuplicates(S) == \A i \in 1..Len(S), j \in 1..Len(S) : S[i] = S[j] => i = j

C14_ChainWellFormed ==
    LET ch == Chain(Cur)
    IN /\ Len(ch) <= MaxNodes
       /\ NoDuplicates(ch)
       /\ desc \/ head = NULL
       /\ Len(ch) = 0 <=> head = NULL
       /\ \A k \in 1..Len(ch) :
             /\ ch[k] \in nodeLive
             /\ data[ch[k]] \in payLive
             /\ next[ch[k]] = (IF k < Len(ch) THEN ch[k + 1] ELSE NULL)
       /\ last.op # "none" =>
             \A n \in nodeLive \ pre.nodeLive :
                 /\ last.op \in InsertOps /\ last.list = LIST
                 /\ last.mallocs[1] = <<"node", n>>

\* free_at_end has removed the last of three nodes, leaving two.
C14_Witness ==
    /\ Called("free_at_end")
    /\ last.path = "removed"
    /\ last.steps = 1
    /\ Len(Chain(Cur)) = 2

(***************************************************************************)
(* C15. Each insert stores an owned copy of the caller's value. The        *)
(* payload of every allocated node is a heap cell allocated for it, never  *)
(* the caller's storage, and no two nodes share one payload cell. After an *)
(* insert that linked a node, the node's payload is a cell the call        *)
(* allocated and holds the first data_size bytes of the value passed, and  *)
(* the payloads that existed before keep their bytes. After the caller     *)
(* has overwritten the storage it passed, the list's memory and its        *)
(* elements are still exactly those the insert returned.                   *)
(***************************************************************************)
\* The caller has changed the storage it passed to the last insert.
CallerWrote ==
    /\ last.op \in InsertOps
    /\ last.buf # NoData
    /\ bytes[CALLER] # last.buf

\* The memory the last insert returned, computed again from the memory at
\* its entry.
InsertReturned ==
    CASE last.op = "insert_front" ->
           insert_front(pre, last.list, last.buf, last.alloc)
      [] last.op = "insert_end" ->
           insert_end(pre, last.list, last.buf, last.alloc)
      [] last.op = "insert_at_index" ->
           insert_at_index(pre, last.list, last.buf, last.index, last.alloc)

C15_OwnedCopy ==
    /\ \A n \in nodeLive : data[n] \in payLive
    /\ \A n1 \in nodeLive, n2 \in nodeLive : data[n1] = data[n2] => n1 = n2
    /\ (last.op \in InsertOps /\ last.path = "linked") =>
          LET n == last.mallocs[1][2]
              v == Stored(last.buf, data_size)
          IN /\ last.mallocs = << <<"node", n>>, <<"data", data[n]>> >>
             /\ data[n] \in payLive \ pre.payLive
             /\ bytes[data[n]] = v
             /\ Occurs(Elems(Cur), v) = Occurs(Elems(pre), v) + 1
             /\ \A p \in pre.payLive : p \in payLive /\ bytes[p] = pre.bytes[p]
    /\ last.op \in InsertOps =>
          /\ Mem(Cur) = Mem(InsertReturned)
          /\ Elems(Cur) = Elems(InsertReturned)

\* An insert has linked a node into a non-empty list and the caller has
\* then overwritten the storage it passed.
C15_Witness ==
    /\ CallerWrote
    /\ last.list = LIST
    /\ last.path = "linked"
    /\ Len(Elems(pre)) >= 1

(***************************************************************************)
(* C16. free_at_end on a list with element sequence S of length n >= 1     *)
(* removes exactly the last element and leaves the first n - 1 in order:   *)
(* for n = 1 head becomes NULL, for n >= 2 head stays and the              *)
(* second-to-last node becomes the last one (its next is NULL), the other  *)
(* nodes keep their links and payloads, and the only free calls are the    *)
(* removed node's payload and then the node. On an empty list the call     *)
(* changes nothing and frees nothing.                                      *)
(***************************************************************************)
C16_FreeAtEndRemovesLast ==
    Called("free_at_end") =>
        LET S == Elems(pre)
            ch == Chain(pre)
            n == Len(S)
        IN IF n = 0
           THEN /\ last.path = "empty"
                /\ Mem(Cur) = Mem(pre)
                /\ last.frees = <<>> /\ last.mallocs = <<>> /\ last.ub = {}
           ELSE /\ last.path = "removed"
                /\ last.ub = {}
                /\ Elems(Cur) = SubSeq(S, 1, n - 1)
                /\ Chain(Cur) = SubSeq(ch, 1, n - 1)
                /\ n = 1 => head = NULL
                /\ n >= 2 => head = pre.head /\ next[ch[n - 1]] = NULL
                /\ \A k \in 1..(n - 1) :
                      /\ data[ch[k]] = pre.data[ch[k]]
                      /\ k < n - 1 => next[ch[k]] = pre.next[ch[k]]
                /\ last.frees = << <<"data", pre.data[ch[n]]>>, <<"node", ch[n]>> >>
                /\ last.mallocs = <<>>
                /\ nodeLive = pre.nodeLive \ {ch[n]}
                /\ payLive = pre.payLive \ {pre.data[ch[n]]}

\* free_at_end has removed the last of three elements, which differed from
\* the one before it.
C16_Witness ==
    /\ Called("free_at_end")
    /\ last.path = "removed"
    /\ Len(Elems(pre)) = 3
    /\ Elems(pre)[2] # Elems(pre)[3]

(***************************************************************************)
(* C17. Memory accounting: in every state (after failed allocations and    *)
(* out-of-bounds indexes too) the allocated nodes are exactly the nodes of *)
(* the chain from head and the allocated payloads are exactly the payloads *)
(* of those nodes, so that the number of allocated nodes, the number of    *)
(* allocated payloads and sll_len are equal; without a list nothing is     *)
(* allocated.                                                              *)
(***************************************************************************)
C17_LiveIsReachable ==
    LET ch == Chain(Cur)
    IN /\ nodeLive = {ch[k] : k \in 1..Len(ch)}
       /\ payLive = {data[n] : n \in nodeLive}
       /\ Cardinality(nodeLive) = Len(ch)
       /\ Cardinality(payLive) = Len(ch)
       /\ desc => sll_len(Cur, LIST).ret = Len(ch)
       /\ ~desc => nodeLive = {} /\ payLive = {}

\* insert_at_index has linked a node between two nodes of the list.
C17_Witness ==
    /\ Called("insert_at_index")
    /\ last.path = "linked"
    /\ last.index = 1
    /\ Len(Chain(pre)) = 2
    /\ Cardinality(nodeLive) = 3

(***************************************************************************)
(* C18. sll_len and print_sllist leave the list unchanged (head, every     *)
(* next link, every payload, data_size, what is allocated) and call        *)
(* neither malloc nor free; sll_len returns the number of nodes, 0 on an   *)
(* empty list and on the list sllist_create has just returned; and no call *)
(* on a list changes its data_size while the list exists.                  *)
(***************************************************************************)
C18_ReadOnlyOperations ==
    /\ (Called("sll_len") \/ Called("print_sllist")) =>
          /\ Mem(Cur) = Mem(pre)
          /\ Elems(Cur) = Elems(pre)
          /\ last.mallocs = <<>> /\ last.frees = <<>> /\ last.ub = {}
    /\ Called("sll_len") =>
          /\ last.ret = Len(Chain(pre))
          /\ pre.head = NULL => last.ret = 0
    /\ (last.op = "sllist_create" /\ last.path = "created") =>
          /\ head = NULL
          /\ sll_len(Cur, LIST).ret = 0
    /\ (last.op \notin {"none", "sllist_create"} /\ pre.desc /\ desc) =>
          data_size = pre.data_size

\* sll_len has returned 0 on a list nothing was inserted into.
C18_Witness ==
    /\ Called("sll_len")
    /\ last.ret = 0
    /\ nIns = 0 /\ nRem = 0

(***************************************************************************)
(* C19. Every call on a list returns, and the loop of insert_end,          *)
(* insert_at_index, free_at_end, free_at_index, free_sllist, sll_len and   *)
(* print_sllist runs its body at most length + 1 times, where length is    *)
(* the number of nodes at the entry of the call, also for an index far     *)
(* larger than the length; insert_front and free_at_front have no loop.    *)
(***************************************************************************)
WalkingOps ==
    {"insert_end", "insert_at_index", "free_at_end", "free_at_index",
     "free_sllist", "sll_len", "print_sllist"}

C19_StepsBounded ==
    /\ (last.op \in WalkingOps /\ last.list = LIST) =>
          last.steps <= Len(Chain(pre)) + 1
    /\ last.op \in {"insert_front", "free_at_front"} => last.steps = 0
    /\ (last.op \in {"insert_at_index", "free_at_index"} /\ last.list = LIST
          /\ last.index = FarIndex) =>
          last.path \in {"out_of_bounds", "empty"} \cup AllocFailed

\* insert_at_index with an index far beyond the end has walked off the end
\* of a two-element list.
C19_Witness ==
    /\ Called("insert_at_index")
    /\ last.index = FarIndex
    /\ last.path = "out_of_bounds"
    /\ Len(Chain(pre)) = 2
    /\ last.steps = 3
====
